---- MODULE Spec2Model ----
(***************************************************************************)
(* hgfind: resolving a human gene name to its hg38 coordinates.            *)
(*                                                                         *)
(* The model follows src/src/hgfind/hgfind.py: the Chromosome value type,  *)
(* the per-line loop of file_to_dicts (chromosome label parsing, alias     *)
(* resolution, coordinate aggregation, final min/max collapse) and hgfind  *)
(* (pickle load, ingestion, pickle dump, lookup).                          *)
(*                                                                         *)
(* Python strings are sequences of one-character strings, so that upper(), *)
(* find(), slicing, indexing, isdigit() and int() are computed rather than *)
(* assumed.  Python values of different types are tagged records.          *)
(***************************************************************************)
EXTENDS Integers, Sequences, FiniteSets, TLC

VARIABLES
    pickle,             \* the file at PATH_TO_PICKLE
    pc,                 \* position of the caller: "idle", "reading", "failed"
    gene_arg,           \* hgfind's argument, as the caller passed it
    lines,              \* data lines of the BioMart file read so far
    name_to_official,   \* dict: gene name -> official name
    official_to_coord,  \* dict: official name -> (chr, starts, ends)
    official_name,      \* file_to_dicts' local after the last line
    result,             \* outcome of the last hgfind call
    chr_self,           \* Chromosome calls: the last Chromosome(n)
    chr_cmp             \* Chromosome calls: the last comparison with it

vars == <<pickle, pc, gene_arg, lines, name_to_official, official_to_coord,
          official_name, result, chr_self, chr_cmp>>

hgfind_vars == <<pickle, pc, gene_arg, lines, name_to_official,
                 official_to_coord, official_name, result>>

chromosome_vars == <<chr_self, chr_cmp>>

-----------------------------------------------------------------------------
(* Python str operations on sequences of characters.                       *)

LowerLetters == <<"a","b","c","d","e","f","g","h","i","j","k","l","m",
                  "n","o","p","q","r","s","t","u","v","w","x","y","z">>

UpperLetters == <<"A","B","C","D","E","F","G","H","I","J","K","L","M",
                  "N","O","P","Q","R","S","T","U","V","W","X","Y","Z">>

DigitChars == <<"0","1","2","3","4","5","6","7","8","9">>

\* str.upper() on one character: a lower-case letter becomes its capital.
UpperChar(c) ==
    IF \E i \in 1..26 : LowerLetters[i] = c
    THEN UpperLetters[CHOOSE i \in 1..26 : LowerLetters[i] = c]
    ELSE c

\* A mutation of Upper: the string is used as typed.
UpperOmitted(s) == s

\* str.upper()
Upper(s) == [i \in 1..Len(s) |-> UpperChar(s[i])]

\* str.isdigit() on one character
IsDigit(c) == \E i \in 1..10 : DigitChars[i] = c

DigitVal(c) == (CHOOSE i \in 1..10 : DigitChars[i] = c) - 1

\* Whether int(s) succeeds, for s over letters, digits and "_": digits,
\* optionally grouped by single underscores between digits.
IsIntLiteral(s) ==
    /\ Len(s) > 0
    /\ IsDigit(s[1])
    /\ IsDigit(s[Len(s)])
    /\ \A i \in 1..Len(s) : IsDigit(s[i]) \/ s[i] = "_"
    /\ \A i \in 1..(Len(s) - 1) : ~(s[i] = "_" /\ s[i + 1] = "_")

RECURSIVE IntValue(_)
\* int(s) for an s that IsIntLiteral accepts
IntValue(s) ==
    IF Len(s) = 0 THEN 0
    ELSE IF s[Len(s)] = "_" THEN IntValue(SubSeq(s, 1, Len(s) - 1))
    ELSE 10 * IntValue(SubSeq(s, 1, Len(s) - 1)) + DigitVal(s[Len(s)])

\* is_int(in_obj) for a str argument
is_int(s) == IsIntLiteral(s)

\* s.find(sub): the 0-based index of the first occurrence, or -1
Find(s, sub) ==
    LET hits == {i \in 0..(Len(s) - Len(sub)) :
                    SubSeq(s, i + 1, i + Len(sub)) = sub}
    IN  IF hits = {} THEN -1
        ELSE CHOOSE i \in hits : \A j \in hits : i <= j

\* s[lo:hi] with 0-based bounds lo >= 0, clipped to the string as Python does
Slice(s, lo, hi) ==
    LET h == IF hi > Len(s) THEN Len(s) ELSE hi
    IN  IF lo >= h THEN <<>> ELSE SubSeq(s, lo + 1, h)

-----------------------------------------------------------------------------
(* Python values: an int is [t |-> "int", v |-> 3], a str is               *)
(* [t |-> "str", v |-> <<"X">>], a Chromosome is [t |-> "chr", chr_n |-> 23]. *)

PyInt(i) == [t |-> "int", v |-> i]
PyStr(s) == [t |-> "str", v |-> s]
ChrObj(k) == [t |-> "chr", chr_n |-> k]

\* What a raise leaves in place of a value
Raised(exc) == [t |-> "raise", exc |-> exc]

\* Chromosome.__init__(n)
Chromosome(n) ==
    IF n.t = "int" /\ 1 <= n.v /\ n.v <= 22 THEN ChrObj(n.v)
    ELSE IF n.t = "str"
            /\ Upper(n.v) \in {<<"X">>, <<"Y">>, <<"M","T">>, <<"M">>}
    THEN IF Upper(n.v) = <<"X">> THEN ChrObj(23)
         ELSE IF Upper(n.v) = <<"Y">> THEN ChrObj(24)
         ELSE IF Upper(n.v) = <<"M","T">> THEN ChrObj(25)
         ELSE ChrObj(25)
    ELSE IF n.t = "str" /\ is_int(n.v)
            /\ 1 <= IntValue(n.v) /\ IntValue(n.v) <= 22
    THEN ChrObj(IntValue(n.v))
    ELSE Raised("ValueError")

\* Chromosome.__str__
ChrStr(c) ==
    IF c.chr_n <= 22
    THEN IF c.chr_n >= 10
         THEN <<DigitChars[(c.chr_n \div 10) + 1], DigitChars[(c.chr_n % 10) + 1]>>
         ELSE <<DigitChars[c.chr_n + 1]>>
    ELSE IF c.chr_n = 23 THEN <<"X">>
    ELSE IF c.chr_n = 24 THEN <<"Y">>
    ELSE <<"M">>

\* Chromosome.__lt__
ChrLt(self, other) == self.chr_n < other.chr_n

\* Chromosome.__gt__
ChrGt(self, other) == self.chr_n > other.chr_n

\* Chromosome.__eq__ ; other is a str, an int or a Chromosome
ChrEq(self, other) ==
    IF other.t = "str" THEN ChrStr(self) = other.v
    ELSE IF other.t = "int" THEN self.chr_n = other.v
    ELSE self.chr_n = other.chr_n

\* a != b on Chromosome objects: Python negates __eq__
ChrNe(self, other) == ~ChrEq(self, other)

\* Chromosome.__int__
ChrInt(c) == c.chr_n

-----------------------------------------------------------------------------
(* The chromosome label of one line (file_to_dicts, lines 193-223).        *)

\* Chromosome(int(s)): int() raises ValueError on a non-number
ChromosomeOfIntStr(s) ==
    IF IsIntLiteral(s) THEN Chromosome(PyInt(IntValue(s)))
    ELSE Raised("ValueError")

\* The "HSCHR" branch: the 7-character window at the substring, less its
\* 5-character prefix.
HsChrLabel(str_chr_no) ==
    LET at  == Find(Upper(str_chr_no), <<"H","S","C","H","R">>)
        win == Slice(str_chr_no, at, at + 7)
        rem == Slice(win, 5, Len(win))
    IN  IF Len(rem) < 2 THEN Raised("IndexError")
        ELSE IF IsDigit(rem[2]) THEN ChromosomeOfIntStr(rem)
        ELSE IF rem[1] = "X" \/ rem[1] = "Y" THEN Chromosome(PyStr(<<rem[1]>>))
        ELSE IF rem = <<"M","T">> THEN Chromosome(PyStr(rem))
        ELSE ChromosomeOfIntStr(<<rem[1]>>)

\* The chromosome of a label: a Chromosome, a raise, or [t |-> "skip"] when
\* the line is passed over.
ChrOfLabel(str_chr_no) ==
    IF str_chr_no \in {<<"X">>, <<"Y">>, <<"M","T">>}
    THEN Chromosome(PyStr(str_chr_no))
    ELSE IF Len(str_chr_no) <= 2 THEN ChromosomeOfIntStr(str_chr_no)
    ELSE IF Find(Upper(str_chr_no), <<"H","S","C","H","R">>) # -1
    THEN HsChrLabel(str_chr_no)
    ELSE [t |-> "skip"]

-----------------------------------------------------------------------------
(* One data line of the table: its seven tab-separated fields, stripped.   *)
(* start_coord and end_coord hold the numbers int() reads from the fields. *)

Line(start_coord, end_coord, names4, str_chr_no) ==
    [start_coord |-> start_coord, end_coord |-> end_coord,
     gene_name |-> names4[1], gene_syn_name |-> names4[2],
     wiki_name |-> names4[3], uniprot_name |-> names4[4],
     str_chr_no |-> str_chr_no]

\* names: the four name fields without the empty ones, in order
NamesOf(line) ==
    SelectSeq(<<line.gene_name, line.gene_syn_name, line.wiki_name,
                line.uniprot_name>>, LAMBDA name : name # <<>>)

\* d[k] = v on a dict
Put(d, k, v) == [x \in (DOMAIN d) \cup {k} |-> IF x = k THEN v ELSE d[x]]

EmptyDict == [x \in {} |-> <<>>]

\* A mutation of LinkName: a known name recorded on another chromosome
\* keeps its official name.
LinkNameNoDemotion(name, st, o2c, chr_no) ==
    IF name \in DOMAIN st.n2o
    THEN [n2o |-> st.n2o, official |-> st.n2o[name]]
    ELSE [n2o |-> Put(st.n2o, name, st.official), official |-> st.official]

\* A mutation of LinkName: a known name on the same chromosome leaves
\* official_name as it was.
LinkNameKeepsOfficial(name, st, o2c, chr_no) ==
    IF name \in DOMAIN st.n2o
    THEN IF st.n2o[name] \in DOMAIN o2c /\ ChrNe(o2c[st.n2o[name]][1], chr_no)
         THEN [n2o |-> Put(st.n2o, name, name), official |-> name]
         ELSE st
    ELSE [n2o |-> Put(st.n2o, name, st.official), official |-> st.official]

\* A mutation of LinkName: a known name is linked anew to the official name
\* of the line.
LinkNameRelinks(name, st, o2c, chr_no) ==
    [n2o |-> Put(st.n2o, name, st.official), official |-> st.official]

\* One pass of the loop over names (lines 233-250), on the pair
\* st = [n2o, official] of name_to_official and official_name.
LinkName(name, st, o2c, chr_no) ==
    IF name \in DOMAIN st.n2o
    THEN LET known == st.n2o[name]
         IN  IF known \notin DOMAIN o2c
             THEN [n2o |-> st.n2o, official |-> known]
             ELSE IF ChrNe(o2c[known][1], chr_no)
             THEN [n2o |-> Put(st.n2o, name, name), official |-> name]
             ELSE [n2o |-> st.n2o, official |-> known]
    ELSE [n2o |-> Put(st.n2o, name, st.official), official |-> st.official]

RECURSIVE LinkNames(_, _, _, _)
\* The loop over names, from left to right
LinkNames(names, st, o2c, chr_no) ==
    IF names = <<>> THEN st
    ELSE LinkNames(Tail(names), LinkName(Head(names), st, o2c, chr_no),
                   o2c, chr_no)

\* official_name before the loop (line 231)
FirstOfficial(n2o, gene_name) ==
    IF gene_name \in DOMAIN n2o THEN n2o[gene_name] ELSE gene_name

\* official_to_coord.get(official_name, (-1, [], [])) (lines 253-257)
PrevCoord(o2c, official) ==
    IF official \in DOMAIN o2c THEN o2c[official]
    ELSE <<PyInt(-1), <<>>, <<>>>>

\* int(prev_chr_no)
IntOf(x) == IF x.t = "int" THEN x.v ELSE ChrInt(x)

\* A mutation of OtherLocus: coordinates are recorded whatever chromosome
\* the name already has.
OtherLocusIgnored(prev, chr_no) == FALSE

\* Whether the line's coordinates are dropped (line 259)
OtherLocus(prev, chr_no) ==
    IntOf(prev[1]) # -1 /\ ChrNe(prev[1], chr_no)

\* A mutation of Aggregate: the entry holds the latest line alone.
AggregateOverwrites(o2c, official, chr_no, start_coord, end_coord) ==
    IF OtherLocus(PrevCoord(o2c, official), chr_no) THEN o2c
    ELSE Put(o2c, official, <<chr_no, <<start_coord>>, <<end_coord>>>>)

\* The line's coordinates recorded under official_name (lines 253-271)
Aggregate(o2c, official, chr_no, start_coord, end_coord) ==
    LET prev == PrevCoord(o2c, official)
    IN  IF OtherLocus(prev, chr_no) THEN o2c
        ELSE Put(o2c, official,
                 <<chr_no, prev[2] \o <<start_coord>>, prev[3] \o <<end_coord>>>>)

\* A mutation of Collapse: the first line's start and end stand for the gene.
CollapseToFirst(o2c) ==
    [k \in DOMAIN o2c |-> <<o2c[k][1], o2c[k][2][1], o2c[k][3][1]>>]

\* min() and max() of a non-empty list
Min(xs) == CHOOSE v \in {xs[i] : i \in 1..Len(xs)} :
               \A i \in 1..Len(xs) : v <= xs[i]

Max(xs) == CHOOSE v \in {xs[i] : i \in 1..Len(xs)} :
               \A i \in 1..Len(xs) : v >= xs[i]

\* The closing loop of file_to_dicts (lines 279-285)
Collapse(o2c) ==
    [k \in DOMAIN o2c |-> <<o2c[k][1], Min(o2c[k][2]), Max(o2c[k][3])>>]

-----------------------------------------------------------------------------
(* hgfind: the pickle and the lookup (lines 104-147).                      *)

NoResult == [kind |-> "none", gene |-> <<>>, rna_info |-> <<>>]

Failure(exc) == [kind |-> exc, gene |-> <<>>, rna_info |-> <<>>]

\* pickle.dump([name_to_official, official_to_coord], handle)
PickleDump(n2o, o2c) == [kind |-> "valid", data |-> <<n2o, o2c>>]

\* The exceptions hgfind catches around pickle.load (lines 110-115)
CaughtOnLoad == {"ModuleNotFoundError", "AttributeError", "ValueError"}

\* What line 109 can raise on a file that is no snapshot of this version:
\* a missing module or class, a bad protocol or a list of the wrong length,
\* an empty file, a cut file, an object that does not unpack.
LoadErrors == CaughtOnLoad \cup {"EOFError", "UnpicklingError", "TypeError"}

\* A mutation of Lookup: the official name reported is the name asked for.
LookupEchoesName(gene_in, n2o, o2c) ==
    LET gene == Upper(gene_in)
    IN  IF gene \in DOMAIN n2o /\ n2o[gene] \in DOMAIN o2c
        THEN [kind |-> "ok", gene |-> <<>>,
              rna_info |-> [chr_n |-> o2c[n2o[gene]][1],
                            start_coord |-> o2c[n2o[gene]][2],
                            end_coord |-> o2c[n2o[gene]][3],
                            official_name |-> gene]]
        ELSE [kind |-> "WrongGeneName", gene |-> gene, rna_info |-> <<>>]

\* Lines 128-147: the answer from the two dicts
Lookup(gene_in, n2o, o2c) ==
    LET gene == Upper(gene_in)
    IN  IF gene \in DOMAIN n2o /\ n2o[gene] \in DOMAIN o2c
        THEN [kind |-> "ok", gene |-> <<>>,
              rna_info |-> [chr_n |-> o2c[n2o[gene]][1],
                            start_coord |-> o2c[n2o[gene]][2],
                            end_coord |-> o2c[n2o[gene]][3],
                            official_name |-> n2o[gene]]]
        ELSE [kind |-> "WrongGeneName", gene |-> gene, rna_info |-> <<>>]

-----------------------------------------------------------------------------
(* The inputs: gene names, lines of the table, queries.                    *)

\* The table holds at most MaxRows data lines.
MaxRows == 2

HD == <<"H","D">>
AU == <<"A","U">>
Au == <<"A","u">>
NoName == <<>>

\* The four name fields of a line: gene symbol, synonym, WikiGene name,
\* UniProtKB name; from none to four of them filled in.
NameFields ==
    { <<HD, NoName, NoName, NoName>>,
      <<AU, NoName, NoName, NoName>>,
      <<Au, NoName, NoName, NoName>>,
      <<HD, AU, NoName, NoName>>,
      <<AU, HD, NoName, NoName>>,
      <<Au, AU, NoName, NoName>>,
      <<AU, Au, HD, NoName>>,
      <<NoName, AU, NoName, NoName>>,
      <<HD, AU, Au, HD>>,
      <<HD, AU, AU, NoName>>,
      <<NoName, NoName, NoName, NoName>> }

\* Chromosome labels: a primary chromosome and a patch scaffold of X, ...
Label1 == <<"1">>
LabelScaffoldX == <<"C","H","R","_","H","S","C","H","R","X","_","1">>
\* ... an unplaced contig, which no pattern matches, and a number out of range.
LabelContig == <<"K","I","2","7","0">>
LabelOutOfRange == <<"2","3">>

\* (start, end) of a line
Extents == { <<5, 9>>, <<3, 7>> }

\* The lines a table is made of: every choice of names on chromosome 1 with
\* either extent and on the X scaffold with one, and two lines whose label
\* names no chromosome.
Rows ==
    { Line(e[1], e[2], n, Label1) : e \in Extents, n \in NameFields }
    \cup { Line(5, 9, n, LabelScaffoldX) : n \in NameFields }
    \cup { Line(5, 9, <<HD, AU, NoName, NoName>>, l) :
             l \in {LabelContig, LabelOutOfRange} }

\* What callers ask for
Queries == { AU, <<"a","u">>, HD }

\* What Chromosome() is called with, and what it is compared to: the ints
\* 0..23, their decimal strings, and the letter forms, good and bad.
DecimalStrs ==
    << <<"1">>, <<"2">>, <<"3">>, <<"4">>, <<"5">>, <<"6">>, <<"7">>, <<"8">>,
       <<"9">>, <<"1","0">>, <<"1","1">>, <<"1","2">>, <<"1","3">>,
       <<"1","4">>, <<"1","5">>, <<"1","6">>, <<"1","7">>, <<"1","8">>,
       <<"1","9">>, <<"2","0">>, <<"2","1">>, <<"2","2">>, <<"2","3">> >>

RawInputs ==
    { PyInt(i) : i \in 0..23 }
    \cup { PyStr(DecimalStrs[i]) : i \in 1..23 }
    \cup { PyStr(s) : s \in { <<"X">>, <<"Y">>, <<"M","T">>, <<"M">>, <<"x">>,
                              <<"0">>, <<"Z">>, <<"c","h","r","1">> } }

\* A Chromosome call: the argument and what came of it
NotBuilt == [raw |-> PyInt(0), obj |-> Raised("unset")]

NotCompared == [op |-> "none", other |-> PyInt(0), eq |-> FALSE, lt |-> FALSE]

-----------------------------------------------------------------------------
(* The state machine of hgfind.                                            *)

Init ==
    /\ pickle \in { [kind |-> "absent", data |-> <<>>],
                    [kind |-> "corrupt", data |-> <<>>] }
    /\ pc = "idle"
    /\ gene_arg = <<>>
    /\ lines = <<>>
    /\ name_to_official = EmptyDict
    /\ official_to_coord = EmptyDict
    /\ official_name = <<>>
    /\ result = NoResult
    /\ chr_self = NotBuilt
    /\ chr_cmp = NotCompared

\* file_to_dicts is entered: both dicts empty (lines 164-165)
EnterFileToDicts(gene) ==
    /\ pc' = "reading"
    /\ gene_arg' = gene
    /\ lines' = <<>>
    /\ name_to_official' = EmptyDict
    /\ official_to_coord' = EmptyDict
    /\ official_name' = <<>>
    /\ UNCHANGED <<pickle, result, chromosome_vars>>

\* hgfind(gene) with no pickle file (line 105 false)
HgfindNoPickle(gene) ==
    /\ pc = "idle"
    /\ pickle.kind = "absent"
    /\ EnterFileToDicts(gene)

\* hgfind(gene) whose pickle.load raises an exception it catches
HgfindBadPickleCaught(gene, exc) ==
    /\ pc = "idle"
    /\ pickle.kind = "corrupt"
    /\ exc \in CaughtOnLoad
    /\ EnterFileToDicts(gene)

\* hgfind(gene) whose pickle.load raises any other exception
HgfindBadPickleRaises(gene, exc) ==
    /\ pc = "idle"
    /\ pickle.kind = "corrupt"
    /\ exc \notin CaughtOnLoad
    /\ pc' = "failed"
    /\ gene_arg' = gene
    /\ result' = Failure(exc)
    /\ UNCHANGED <<pickle, lines, name_to_official, official_to_coord,
                   official_name, chromosome_vars>>

\* hgfind(gene) answered from the pickle
HgfindFromPickle(gene) ==
    /\ pc = "idle"
    /\ pickle.kind = "valid"
    /\ gene_arg' = gene
    /\ name_to_official' = pickle.data[1]
    /\ official_to_coord' = pickle.data[2]
    /\ result' = Lookup(gene, pickle.data[1], pickle.data[2])
    /\ UNCHANGED <<pickle, pc, lines, official_name, chromosome_vars>>

\* A line whose label no pattern matches (lines 221-223)
ReadLineSkipped(line) ==
    /\ pc = "reading"
    /\ Len(lines) < MaxRows
    /\ ChrOfLabel(line.str_chr_no).t = "skip"
    /\ lines' = Append(lines, line)
    /\ UNCHANGED <<pickle, pc, gene_arg, name_to_official, official_to_coord,
                   official_name, result, chromosome_vars>>

\* A line whose label makes int() or Chromosome() raise: nothing catches it
\* in file_to_dicts or in hgfind
ReadLineRaises(line) ==
    /\ pc = "reading"
    /\ Len(lines) < MaxRows
    /\ ChrOfLabel(line.str_chr_no).t = "raise"
    /\ lines' = Append(lines, line)
    /\ pc' = "failed"
    /\ result' = Failure(ChrOfLabel(line.str_chr_no).exc)
    /\ UNCHANGED <<pickle, gene_arg, name_to_official, official_to_coord,
                   official_name, chromosome_vars>>

\* A line with a chromosome: names linked, coordinates recorded
ReadLine(line) ==
    /\ pc = "reading"
    /\ Len(lines) < MaxRows
    /\ ChrOfLabel(line.str_chr_no).t = "chr"
    /\ LET chr_no == ChrOfLabel(line.str_chr_no)
           st == LinkNames(NamesOf(line),
                           [n2o |-> name_to_official,
                            official |-> FirstOfficial(name_to_official,
                                                       line.gene_name)],
                           official_to_coord, chr_no)
       IN  /\ name_to_official' = st.n2o
           /\ official_name' = st.official
           /\ official_to_coord' =
                  Aggregate(official_to_coord, st.official, chr_no,
                            line.start_coord, line.end_coord)
    /\ lines' = Append(lines, line)
    /\ UNCHANGED <<pickle, pc, gene_arg, result, chromosome_vars>>

\* End of file: the lists collapse, the pickle is written, the gene is
\* looked up (lines 279-287, 119-147)
EndOfFile ==
    /\ pc = "reading"
    /\ official_to_coord' = Collapse(official_to_coord)
    /\ pickle' = PickleDump(name_to_official, Collapse(official_to_coord))
    /\ result' = Lookup(gene_arg, name_to_official, Collapse(official_to_coord))
    /\ pc' = "idle"
    /\ UNCHANGED <<gene_arg, lines, name_to_official, official_name,
                   chromosome_vars>>

Next ==
    \/ \E gene \in Queries : HgfindNoPickle(gene)
    \/ \E gene \in Queries, exc \in LoadErrors : HgfindBadPickleCaught(gene, exc)
    \/ \E gene \in Queries, exc \in LoadErrors : HgfindBadPickleRaises(gene, exc)
    \/ \E gene \in Queries : HgfindFromPickle(gene)
    \/ \E line \in Rows : ReadLineSkipped(line)
    \/ \E line \in Rows : ReadLineRaises(line)
    \/ \E line \in Rows : ReadLine(line)
    \/ EndOfFile

Spec == Init /\ [][Next]_vars

-----------------------------------------------------------------------------
(* The Chromosome class on its own: construction and comparison.           *)

\* c = Chromosome(n)
NewChromosome(n) ==
    /\ chr_self' = [raw |-> n, obj |-> Chromosome(n)]
    /\ chr_cmp' = NotCompared
    /\ UNCHANGED hgfind_vars

\* c == Chromosome(n) and c < Chromosome(n)
CompareChromosomes(n) ==
    /\ chr_self.obj.t = "chr"
    /\ Chromosome(n).t = "chr"
    /\ chr_cmp' = [op |-> "objects", other |-> n,
                   eq |-> ChrEq(chr_self.obj, Chromosome(n)),
                   lt |-> ChrLt(chr_self.obj, Chromosome(n))]
    /\ UNCHANGED <<hgfind_vars, chr_self>>

\* c == r for a raw int or str r
CompareToRaw(r) ==
    /\ chr_self.obj.t = "chr"
    /\ chr_cmp' = [op |-> "raw", other |-> r,
                   eq |-> ChrEq(chr_self.obj, r), lt |-> FALSE]
    /\ UNCHANGED <<hgfind_vars, chr_self>>

NextChromosome ==
    \/ \E n \in RawInputs : NewChromosome(n)
    \/ \E n \in RawInputs : CompareChromosomes(n)
    \/ \E r \in RawInputs : CompareToRaw(r)

SpecChromosome == Init /\ [][NextChromosome]_vars

-----------------------------------------------------------------------------
(* The vocabulary of the properties.                                       *)

\* The chromosome a label of the table stands for, as its rank; 0 for a
\* label that names no chromosome.
LocusOf(line) ==
    IF line.str_chr_no = Label1 THEN 1
    ELSE IF line.str_chr_no = LabelScaffoldX THEN 23
    ELSE 0

\* The names a line lists
NameSet(line) ==
    {line.gene_name, line.gene_syn_name, line.wiki_name, line.uniprot_name}
    \ {NoName}

\* This step reads one more line and the loop goes on.
LineRead == pc = "reading" /\ pc' = "reading" /\ Len(lines') = Len(lines) + 1

\* This step reads one more line, whatever comes of it.
LineTaken == pc = "reading" /\ Len(lines') = Len(lines) + 1

\* The line this step reads
NewLine == lines'[Len(lines')]

\* name n stands, before this step, for a name recorded on a chromosome
\* other than the new line's
ConflictingAlias(n) ==
    /\ LocusOf(NewLine) # 0
    /\ n \in DOMAIN name_to_official
    /\ name_to_official[n] \in DOMAIN official_to_coord
    /\ official_to_coord[name_to_official[n]][1].chr_n # LocusOf(NewLine)

\* hgfind has returned an answer, or raised WrongGeneName, for gene_arg.
Answered == pc = "idle" /\ result.kind \in {"ok", "WrongGeneName"}

\* q1 and q2 are the same string but for the case of their letters.
SameButCase(q1, q2) ==
    /\ Len(q1) = Len(q2)
    /\ \A i \in 1..Len(q1) :
           \/ q1[i] = q2[i]
           \/ \E k \in 1..26 :
                  {q1[i], q2[i]} = {LowerLetters[k], UpperLetters[k]}

\* The rank 1..25 of a valid argument of Chromosome(), 0 for any other
RankOf(r) ==
    IF r.t = "int" THEN (IF r.v \in 1..22 THEN r.v ELSE 0)
    ELSE IF r.v = <<"X">> THEN 23
    ELSE IF r.v = <<"Y">> THEN 24
    ELSE IF r.v \in {<<"M","T">>, <<"M">>} THEN 25
    ELSE IF \E i \in 1..22 : DecimalStrs[i] = r.v
    THEN CHOOSE i \in 1..22 : DecimalStrs[i] = r.v
    ELSE 0

\* No lower-case letter in s
IsUpperCase(s) ==
    \A i \in 1..Len(s) : \A k \in 1..26 : s[i] # LowerLetters[k]

\* The lines of the table whose gene symbol is s
SymbolRows(s) == {i \in 1..Len(lines) : lines[i].gene_name = s}

\* All lines with gene symbol s carry a label of chromosome c.
AllOn(s, c) == \A i \in SymbolRows(s) : LocusOf(lines[i]) = c

\* The least start and the greatest end among the lines I
LeastStart(I) ==
    CHOOSE v \in {lines[i].start_coord : i \in I} :
        \A i \in I : v <= lines[i].start_coord

GreatestEnd(I) ==
    CHOOSE v \in {lines[i].end_coord : i \in I} :
        \A i \in I : v >= lines[i].end_coord

\* The answer is official name s on chromosome c with the span of the
\* lines whose gene symbol is s.
AnswerIs(s, c) ==
    /\ result.kind = "ok"
    /\ result.rna_info.official_name = s
    /\ result.rna_info.chr_n.chr_n = c
    /\ result.rna_info.start_coord = LeastStart(SymbolRows(s))
    /\ result.rna_info.end_coord = GreatestEnd(SymbolRows(s))

\* The lines with gene symbol s share no name with any other line.
NamesApart(s) ==
    \A i \in SymbolRows(s) : \A j \in (1..Len(lines)) \ SymbolRows(s) :
        NameSet(lines[i]) \cap NameSet(lines[j]) = {}

\* Name a is listed only as a synonym or cross-reference, and only on lines
\* whose gene symbol is s; on one of them at least.
OnlyAliasOf(a, s) ==
    /\ a # s
    /\ \E i \in SymbolRows(s) : a \in NameSet(lines[i])
    /\ \A i \in 1..Len(lines) :
           a \in NameSet(lines[i]) => lines[i].gene_name = s

\* AliasMap.get(n, n)
CanonicalOr(n) ==
    IF n \in DOMAIN name_to_official THEN name_to_official[n] ELSE n

\* Canonical name c is recorded, before this step, on a chromosome other
\* than the new line's.
OnOtherLocus(c) ==
    /\ c \in DOMAIN official_to_coord
    /\ official_to_coord[c][1].chr_n # LocusOf(NewLine)

RECURSIVE StatedLinking(_, _, _)
\* C10 as stated, after the first i candidate names: [map, official] where
\* official starts at first and changes only by a demotion.
StatedLinking(i, names, first) ==
    IF i = 0 THEN [map |-> name_to_official, official |-> first]
    ELSE LET before == StatedLinking(i - 1, names, first)
             n == names[i]
         IN  IF n \notin DOMAIN before.map
             THEN [map |-> (n :> before.official) @@ before.map,
                   official |-> before.official]
             ELSE IF OnOtherLocus(before.map[n])
             THEN [map |-> (n :> n) @@ before.map, official |-> n]
             ELSE before

RECURSIVE AmendedLinking(_, _, _)
\* C10 amended, after the first i candidate names: an already-known name
\* sets official to its canonical name, or to itself on a demotion.
AmendedLinking(i, names, first) ==
    IF i = 0 THEN [map |-> name_to_official, official |-> first]
    ELSE LET before == AmendedLinking(i - 1, names, first)
             n == names[i]
         IN  IF n \notin DOMAIN before.map
             THEN [map |-> (n :> before.official) @@ before.map,
                   official |-> before.official]
             ELSE IF OnOtherLocus(before.map[n])
             THEN [map |-> (n :> n) @@ before.map, official |-> n]
             ELSE [map |-> before.map, official |-> before.map[n]]

\* The new line's start and end are appended to the entry of name c, on
\* the line's chromosome, and no other entry changes.
AttributedTo(c) ==
    /\ DOMAIN official_to_coord' = (DOMAIN official_to_coord) \cup {c}
    /\ official_to_coord'[c][1].chr_n = LocusOf(NewLine)
    /\ official_to_coord'[c][2] =
           (IF c \in DOMAIN official_to_coord
            THEN official_to_coord[c][2] ELSE <<>>) \o <<NewLine.start_coord>>
    /\ official_to_coord'[c][3] =
           (IF c \in DOMAIN official_to_coord
            THEN official_to_coord[c][3] ELSE <<>>) \o <<NewLine.end_coord>>
    /\ \A d \in (DOMAIN official_to_coord) \ {c} :
           official_to_coord'[d] = official_to_coord[d]

-----------------------------------------------------------------------------
\* C1: after every line, and at the end, each key n of name_to_official
\* maps to n itself or to a key of official_to_coord.
C1_AliasTargetsRecorded ==
    \A n \in DOMAIN name_to_official :
        \/ name_to_official[n] = n
        \/ name_to_official[n] \in DOMAIN official_to_coord

\* C2 as stated: a name that stood for a name recorded on another chromosome
\* is, after the line, its own official name, has an entry on the line's
\* chromosome, and the entry it stood for is as before.
C2_ConflictSplitsWithEntry ==
    [][LineRead =>
        \A n \in NameSet(NewLine) :
            ConflictingAlias(n) =>
                /\ name_to_official'[n] = n
                /\ n \in DOMAIN official_to_coord'
                /\ official_to_coord'[n][1].chr_n = LocusOf(NewLine)
                /\ official_to_coord'[name_to_official[n]]
                       = official_to_coord[name_to_official[n]]]_vars

\* C2 amended: such a name is, after the line, its own official name and the
\* entry it stood for is as before; it has an entry on the line's chromosome
\* when it did not stand for itself and is the line's resulting official name.
C2_ConflictSplits ==
    [][LineRead =>
        \A n \in NameSet(NewLine) :
            ConflictingAlias(n) =>
                /\ name_to_official'[n] = n
                /\ official_to_coord'[name_to_official[n]]
                       = official_to_coord[name_to_official[n]]
                /\ (name_to_official[n] # n /\ official_name' = n) =>
                       /\ n \in DOMAIN official_to_coord'
                       /\ official_to_coord'[n][1].chr_n = LocusOf(NewLine)]_vars

\* C2 witness: AU stood for HD on chromosome 1, a line on X listed AU, and
\* AU is now its own official name with an entry on X beside HD's.
C2_Witness ==
    /\ pc = "reading"
    /\ Len(lines) = 2
    /\ lines[1].gene_name = HD /\ lines[1].gene_syn_name = AU
    /\ LocusOf(lines[1]) = 1
    /\ AU \in NameSet(lines[2]) /\ LocusOf(lines[2]) = 23
    /\ name_to_official[AU] = AU
    /\ AU \in DOMAIN official_to_coord
    /\ official_to_coord[AU][1].chr_n = 23
    /\ official_to_coord[HD][1].chr_n = 1

\* C3 as stated: when every line with gene symbol S (upper case) is on one
\* chromosome C, hgfind(S) returns official name S on C with the least start
\* and the greatest end of those lines.
C3_SymbolLookupAnyTable ==
    \A s \in {HD, AU}, c \in {1, 23} :
        ( /\ Answered
          /\ gene_arg = s
          /\ IsUpperCase(s)
          /\ SymbolRows(s) # {}
          /\ AllOn(s, c) )
        => AnswerIs(s, c)

\* C3 amended: the same, for a table in which the lines with gene symbol S
\* share no name with the other lines.
C3_SymbolLookup ==
    \A s \in {HD, AU}, c \in {1, 23} :
        ( /\ Answered
          /\ gene_arg = s
          /\ IsUpperCase(s)
          /\ SymbolRows(s) # {}
          /\ AllOn(s, c)
          /\ NamesApart(s) )
        => AnswerIs(s, c)

\* C3 witness: two lines of HD on chromosome 1 with different extents, next
\* to nothing else, and hgfind("HD") answered with their span.
C3_Witness ==
    /\ Answered
    /\ gene_arg = HD
    /\ Len(lines) = 2
    /\ SymbolRows(HD) = {1, 2}
    /\ AllOn(HD, 1)
    /\ lines[1].start_coord # lines[2].start_coord
    /\ NamesApart(HD)
    /\ AnswerIs(HD, 1)
    /\ result.rna_info.start_coord = 3
    /\ result.rna_info.end_coord = 9

\* C4 as stated: when name A (upper case) is listed only as a synonym or
\* cross-reference of lines with gene symbol S, all on chromosome C,
\* hgfind(A) returns official name S on C with the span of the lines of S.
C4_SynonymLookupAnyTable ==
    \A a \in {HD, AU}, s \in {HD, AU, Au}, c \in {1, 23} :
        ( /\ Answered
          /\ gene_arg = a
          /\ IsUpperCase(a)
          /\ OnlyAliasOf(a, s)
          /\ AllOn(s, c) )
        => AnswerIs(s, c)

\* C4 amended: the same, for a table in which the lines with gene symbol S
\* share no name with the other lines.
C4_SynonymLookup ==
    \A a \in {HD, AU}, s \in {HD, AU, Au}, c \in {1, 23} :
        ( /\ Answered
          /\ gene_arg = a
          /\ IsUpperCase(a)
          /\ OnlyAliasOf(a, s)
          /\ AllOn(s, c)
          /\ NamesApart(s) )
        => AnswerIs(s, c)

\* C4 witness: HD is a synonym on two lines of AU on chromosome 1, and
\* hgfind("HD") answered AU with the span of both.
C4_Witness ==
    /\ Answered
    /\ gene_arg = HD
    /\ Len(lines) = 2
    /\ SymbolRows(AU) = {1, 2}
    /\ OnlyAliasOf(HD, AU)
    /\ AllOn(AU, 1)
    /\ lines[1].start_coord # lines[2].start_coord
    /\ AnswerIs(AU, 1)
    /\ result.rna_info.start_coord = 3
    /\ result.rna_info.end_coord = 9

\* C5: a line whose chromosome label names no chromosome is passed over:
\* nothing is raised, the loop goes on, and both dicts stay as they were
\* (so the table gives what it gives without that line).
C5_BadLabelSkipped ==
    [][(LineTaken /\ LocusOf(NewLine) = 0) =>
          /\ pc' = "reading"
          /\ name_to_official' = name_to_official
          /\ official_to_coord' = official_to_coord]_vars

\* C6: a call that finds a pickle file it cannot use goes on to read the
\* table; the failure to load does not reach the caller.
C6_BadPickleRecovered ==
    [][(pc = "idle" /\ pickle.kind = "corrupt" /\ pc' # "idle") =>
          pc' = "reading"]_vars

\* C7: WrongGeneName carries the query exactly as the caller passed it.
C7_ErrorCarriesQuery ==
    (pc = "idle" /\ result.kind = "WrongGeneName") => result.gene = gene_arg

\* C8: the outcome of hgfind(q1) is the outcome the same dicts give for any
\* q2 that differs from q1 only in letter case: both not recognized, or both
\* the same official name, chromosome, start and end.
C8_CaseInsensitive ==
    Answered =>
        \A q2 \in Queries :
            SameButCase(gene_arg, q2) =>
                LET other == Lookup(q2, name_to_official, official_to_coord)
                IN  /\ other.kind = result.kind
                    /\ other.rna_info = result.rna_info

\* C8 witness: hgfind("au") answered with the entry of "AU".
C8_Witness ==
    /\ Answered
    /\ gene_arg = <<"a","u">>
    /\ result.kind = "ok"
    /\ AU \in DOMAIN name_to_official
    /\ result.rna_info.official_name = name_to_official[AU]

\* C9: Chromosome(r) succeeds with rank(r) for every valid r; two objects
\* compare equal iff their ranks are equal and less-than iff the rank is
\* less; an object equals a valid raw int or str iff that denotes its rank.
C9_RankConsistency ==
    /\ RankOf(chr_self.raw) # 0 =>
           chr_self.obj.t = "chr" /\ chr_self.obj.chr_n = RankOf(chr_self.raw)
    /\ (chr_cmp.op = "objects" /\ RankOf(chr_self.raw) # 0
            /\ RankOf(chr_cmp.other) # 0) =>
           /\ chr_cmp.eq <=> RankOf(chr_self.raw) = RankOf(chr_cmp.other)
           /\ chr_cmp.lt <=> RankOf(chr_self.raw) < RankOf(chr_cmp.other)
    /\ (chr_cmp.op = "raw" /\ RankOf(chr_self.raw) # 0
            /\ RankOf(chr_cmp.other) # 0) =>
           (chr_cmp.eq <=> RankOf(chr_self.raw) = RankOf(chr_cmp.other))

\* C10 as stated, for a line with a gene symbol: each new name gets the
\* officialName that starts as AliasMap.get(n1, n1) and changes only by a
\* demotion, and the line's coordinates go to the resulting officialName.
C10_OfficialChangesOnlyByDemotion ==
    [][(LineRead /\ LocusOf(NewLine) # 0 /\ NewLine.gene_name # NoName) =>
          LET names == NamesOf(NewLine)
              want == StatedLinking(Len(names), names,
                                    CanonicalOr(NewLine.gene_name))
          IN  /\ name_to_official' = want.map
              /\ official_name' = want.official
              /\ AttributedTo(want.official)]_vars

\* C10 amended: officialName starts as AliasMap.get(g, g) for the gene-symbol
\* field g; every already-known name sets it to that name's canonical name,
\* or to the name itself on a demotion; each new name gets the officialName
\* current when it is reached; the line's coordinates go to the resulting
\* officialName unless that is recorded on another chromosome, and then
\* nowhere.
C10_NewNamesLinked ==
    [][(LineRead /\ LocusOf(NewLine) # 0) =>
          LET names == NamesOf(NewLine)
              want == AmendedLinking(Len(names), names,
                                     CanonicalOr(NewLine.gene_name))
          IN  /\ name_to_official' = want.map
              /\ official_name' = want.official
              /\ IF OnOtherLocus(want.official)
                 THEN official_to_coord' = official_to_coord
                 ELSE AttributedTo(want.official)]_vars

\* C10 witness: AU was known on chromosome 1; the line HD, AU, Au, HD on
\* chromosome 1 linked the new Au to AU, the official name AU brought in.
C10_Witness ==
    /\ pc = "reading"
    /\ Len(lines) = 2
    /\ NamesOf(lines[1]) = <<AU>> /\ LocusOf(lines[1]) = 1
    /\ NamesOf(lines[2]) = <<HD, AU, Au, HD>> /\ LocusOf(lines[2]) = 1
    /\ name_to_official[Au] = AU
    /\ name_to_official[HD] = HD
    /\ official_name = HD
    /\ Len(official_to_coord[HD][2]) = 1

\* C11: while the table is read, the chromosome recorded for a name never
\* changes, and a line whose resulting official name is recorded on another
\* chromosome leaves official_to_coord as it was.
C11_EarlierLocusWins ==
    [][pc = "reading" =>
          /\ \A c \in DOMAIN official_to_coord :
                 /\ c \in DOMAIN official_to_coord'
                 /\ official_to_coord'[c][1] = official_to_coord[c][1]
          /\ (LineRead /\ LocusOf(NewLine) # 0 /\ OnOtherLocus(official_name'))
                 => official_to_coord' = official_to_coord]_vars

\* C11 witness: HD was recorded on chromosome 1, a second line of HD on the
\* X scaffold was read, and HD's entry still holds the first line alone.
C11_Witness ==
    /\ pc = "reading"
    /\ Len(lines) = 2
    /\ NameSet(lines[1]) = {HD} /\ LocusOf(lines[1]) = 1
    /\ NameSet(lines[2]) = {HD} /\ LocusOf(lines[2]) = 23
    /\ official_name = HD
    /\ official_to_coord[HD][1].chr_n = 1
    /\ official_to_coord[HD][2] = <<lines[1].start_coord>>
    /\ official_to_coord[HD][3] = <<lines[1].end_coord>>

RECURSIVE Attributed(_, _, _, _)
\* For each line of the table from the k-th on, the official name the line
\* ended with and whether its coordinates were kept, appended to acc. n2o is
\* name_to_official before the k-th line; recorded gives each official name
\* the chromosome it was first recorded on.
Attributed(acc, n2o, recorded, k) ==
    IF k > Len(lines) THEN acc
    ELSE LET line == lines[k]
             chr_no == ChrOfLabel(line.str_chr_no)
         IN  IF chr_no.t # "chr"
             THEN Attributed(Append(acc, [official |-> NoName,
                                          kept |-> FALSE]),
                             n2o, recorded, k + 1)
             ELSE LET st == LinkNames(NamesOf(line),
                                      [n2o |-> n2o,
                                       official |->
                                           FirstOfficial(n2o, line.gene_name)],
                                      recorded, chr_no)
                      c == st.official
                      known == c \in DOMAIN recorded
                      kept == known => recorded[c][1].chr_n = chr_no.chr_n
                  IN  Attributed(Append(acc, [official |-> c, kept |-> kept]),
                                 st.n2o,
                                 IF known THEN recorded
                                 ELSE Put(recorded, c, <<chr_no, <<>>, <<>>>>),
                                 k + 1)

\* What became of each line of the table read so far
Attribution == Attributed(<<>>, EmptyDict, EmptyDict, 1)

\* The lines whose official name was c and whose coordinates were kept
Contributors(attr, c) ==
    {k \in 1..Len(attr) : attr[k].kept /\ attr[k].official = c}

\* The lines of I, in table order
InOrder(I) == SelectSeq([i \in 1..Len(lines) |-> i], LAMBDA i : i \in I)

StartsOf(I) == [j \in 1..Len(InOrder(I)) |-> lines[InOrder(I)[j]].start_coord]

EndsOf(I) == [j \in 1..Len(InOrder(I)) |-> lines[InOrder(I)[j]].end_coord]

\* official_to_coord's keys are the names with a contributing line.
KeysContribute(attr) ==
    DOMAIN official_to_coord =
        {attr[k].official : k \in {i \in 1..Len(attr) : attr[i].kept}}

\* C12: while the table is read, each entry of official_to_coord lists the
\* starts and the ends of exactly the lines whose official name was that key
\* and whose coordinates were kept, and there is at least one; once the table
\* is read, the entry is the chromosome of those lines, their least start and
\* their greatest end.
C12_FinalizedSpan ==
    LET attr == Attribution
    IN  /\ pc = "reading" =>
               /\ KeysContribute(attr)
               /\ \A c \in DOMAIN official_to_coord :
                      LET I == Contributors(attr, c)
                      IN  /\ I # {}
                          /\ official_to_coord[c][2] = StartsOf(I)
                          /\ official_to_coord[c][3] = EndsOf(I)
        /\ (pc = "idle" /\ pickle.kind = "valid") =>
               /\ KeysContribute(attr)
               /\ \A c \in DOMAIN official_to_coord :
                      LET I == Contributors(attr, c)
                      IN  /\ I # {}
                          /\ \A k \in I : official_to_coord[c][1]
                                              = ChrObj(LocusOf(lines[k]))
                          /\ official_to_coord[c][2] = LeastStart(I)
                          /\ official_to_coord[c][3] = GreatestEnd(I)

\* C12 witness: the table is read; HD's entry spans two lines of different
\* extents, and neither line is the whole span.
C12_Witness ==
    /\ pc = "idle"
    /\ pickle.kind = "valid"
    /\ Contributors(Attribution, HD) = {1, 2}
    /\ lines[1].start_coord # lines[2].start_coord
    /\ official_to_coord[HD] = <<ChrObj(1), 3, 9>>

\* C13: at every step, a key of name_to_official stays a key, and its value
\* stays as it was or becomes the key itself.
C13_AliasMapMonotone ==
    [][\A n \in DOMAIN name_to_official :
           /\ n \in DOMAIN name_to_official'
           /\ \/ name_to_official'[n] = name_to_official[n]
              \/ name_to_official'[n] = n]_vars

\* C13 witness: AU was linked to HD by the first line; the second line, on
\* another chromosome, made AU its own official name and added Au.
C13_Witness ==
    /\ pc = "reading"
    /\ Len(lines) = 2
    /\ lines[1].gene_name = HD /\ AU \in NameSet(lines[1])
    /\ LocusOf(lines[1]) = 1 /\ LocusOf(lines[2]) = 23
    /\ Au \in NameSet(lines[2]) \ NameSet(lines[1])
    /\ DOMAIN name_to_official = {HD, AU, Au}
    /\ name_to_official[HD] = HD
    /\ name_to_official[AU] = AU

\* The call that was reading the table returns in this step: the lists of
\* every entry are collapsed to their min and max, the pickle holds the two
\* finished dicts, and gene_arg is answered from them.
BuiltThenAnswered ==
    /\ pc' = "idle"
    /\ DOMAIN official_to_coord' = DOMAIN official_to_coord
    /\ \A c \in DOMAIN official_to_coord :
           official_to_coord'[c] = <<official_to_coord[c][1],
                                     Min(official_to_coord[c][2]),
                                     Max(official_to_coord[c][3])>>
    /\ name_to_official' = name_to_official
    /\ pickle' = [kind |-> "valid",
                  data |-> <<name_to_official', official_to_coord'>>]
    /\ result'.kind \in {"ok", "WrongGeneName"}
    /\ result' = Lookup(gene_arg, pickle'.data[1], pickle'.data[2])

\* The call goes on reading: nothing is written, nothing is answered.
StillReading == pc' = "reading" /\ pickle' = pickle /\ result' = NoResult

\* A call that finds the pickle: the table is not read again, the pickle is
\* left alone, and the same gene gets the same outcome.
ServedFromPickle ==
    /\ pc' = "idle"
    /\ lines' = lines
    /\ pickle' = pickle
    /\ gene_arg' = gene_arg => result' = result

\* C14: a call made with no pickle file reads the whole table, collapses
\* the lists, writes the pickle and only then answers, be the answer a
\* record or WrongGeneName; a later call, the pickle present, does not read
\* the table and gives the same gene the same outcome.
C14_IngestThenPersist ==
    [][/\ (pc = "reading" /\ pickle.kind = "absent")
              => (StillReading \/ BuiltThenAnswered)
       /\ (pc = "idle" /\ pickle.kind = "valid") => ServedFromPickle]_vars

\* C15: every value of name_to_official is a key that maps to itself, and
\* every key of official_to_coord is a key of name_to_official that maps to
\* itself; so one look-up in name_to_official gives the final official name.
C15_AliasResolutionClosed ==
    /\ \A n \in DOMAIN name_to_official :
           /\ name_to_official[n] \in DOMAIN name_to_official
           /\ name_to_official[name_to_official[n]] = name_to_official[n]
    /\ \A c \in DOMAIN official_to_coord :
           /\ c \in DOMAIN name_to_official
           /\ name_to_official[c] = c

====
